---- MODULE Spec2Model ----
(***************************************************************************)
(* Model of groseri_dashboard.py: a Streamlit script that is executed top  *)
(* to bottom on every run.  The run is a sequence of sections; each        *)
(* section is one action, entered through the script position pc.  An      *)
(* uncaught Python exception ends the run (pc = "raised").                 *)
(*                                                                         *)
(* Floats are modelled as exact extended rationals: a NaN, an infinity or  *)
(* a reduced fraction n/d.  Binary rounding is not modelled.               *)
(***************************************************************************)
EXTENDS Integers, Sequences, FiniteSets, TLC

VARIABLES
    pc,             \* position of the run in the script
    raised,         \* the uncaught exception that ended the run, or "none"
    messages,       \* st.error / st.info messages shown so far
    uploaded_file,  \* what st.file_uploader returned
    disk_file,      \* the workbook "Groseri_Database_100Items.xlsx" on disk
    today,          \* pd.Timestamp.today(), in ticks
    sales, expiry, pricing, promo,   \* the four DataFrames
    kpi,            \* scalars of the first KPI block (lines 153-196)
    cards,          \* emoji of the three KPI cards (lines 181-196)
    kpi2,           \* scalars of the second KPI block (lines 362-366)
    cards2,         \* emoji of the five expander cards (lines 383-396)
    cl_in, cl_out   \* arguments and results of the tier classifiers

vars == <<pc, raised, messages, uploaded_file, disk_file, today,
          sales, expiry, pricing, promo, kpi, cards, kpi2, cards2,
          cl_in, cl_out>>

pipeVars == <<pc, raised, messages, uploaded_file, disk_file, today,
              sales, expiry, pricing, promo, kpi, cards, kpi2, cards2>>

-----------------------------------------------------------------------------
(* Bounds of the model.                                                    *)

\* metric values and thresholds of the classifier runs range over -MaxVal..MaxVal
MaxVal == 3
\* ticks (clock readings) per day: the resolution of a timestamp
TicksPerDay == 2
\* the clock ranges over the days 0..MaxDay, expiry dates over the days
\* 0..AlmostExpiredDays + MaxDay + 1
MaxDay == 2
\* rows of an uploaded Sales sheet
MaxSalesRows == 3
\* rows of an uploaded Promo sheet
MaxPromoRows == 2
\* rows of an uploaded Pricing sheet
MaxPricingRows == 2

-----------------------------------------------------------------------------
(* Floats.                                                                 *)

NaN == [t |-> "nan"]
PosInf == [t |-> "inf", sgn |-> 1]
NegInf == [t |-> "inf", sgn |-> -1]

Abs(i) == IF i < 0 THEN -i ELSE i

RECURSIVE GCD(_, _)
GCD(a, b) == IF b = 0 THEN a ELSE GCD(b, a % b)

\* the float n/d (d # 0), as a reduced fraction with a positive denominator
Frac(n, d) ==
    LET g == GCD(Abs(n), Abs(d))
        s == IF d < 0 THEN -1 ELSE 1
    IN  [t |-> "num", n |-> s * (n \div g), d |-> s * (d \div g)]

F(i) == [t |-> "num", n |-> i, d |-> 1]

IsInf(x) == x.t = "inf"
\* pd.isna on a float
IsNaN(x) == x.t = "nan"
Sign(x) == IF IsInf(x) THEN x.sgn
           ELSE IF x.n > 0 THEN 1 ELSE IF x.n < 0 THEN -1 ELSE 0
InfOf(s) == IF s > 0 THEN PosInf ELSE NegInf

FAdd(a, b) ==
    IF IsNaN(a) \/ IsNaN(b) THEN NaN
    ELSE IF IsInf(a) /\ IsInf(b) THEN (IF a.sgn = b.sgn THEN a ELSE NaN)
    ELSE IF IsInf(a) THEN a
    ELSE IF IsInf(b) THEN b
    ELSE Frac(a.n * b.d + b.n * a.d, a.d * b.d)

FNeg(a) ==
    IF IsNaN(a) THEN NaN
    ELSE IF IsInf(a) THEN InfOf(-a.sgn)
    ELSE [t |-> "num", n |-> -a.n, d |-> a.d]

FSub(a, b) == FAdd(a, FNeg(b))

FMul(a, b) ==
    IF IsNaN(a) \/ IsNaN(b) THEN NaN
    ELSE IF IsInf(a) \/ IsInf(b)
         THEN (IF Sign(a) * Sign(b) = 0 THEN NaN ELSE InfOf(Sign(a) * Sign(b)))
    ELSE Frac(a.n * b.n, a.d * b.d)

\* IEEE division as numpy does it: x/0 is an infinity, 0/0 is NaN
FDiv(a, b) ==
    IF IsNaN(a) \/ IsNaN(b) THEN NaN
    ELSE IF IsInf(a) /\ IsInf(b) THEN NaN
    ELSE IF IsInf(a) THEN InfOf(a.sgn * (IF Sign(b) < 0 THEN -1 ELSE 1))
    ELSE IF IsInf(b) THEN F(0)
    ELSE IF b.n = 0 THEN (IF a.n = 0 THEN NaN ELSE InfOf(a.n))
    ELSE Frac(a.n * b.d, a.d * b.n)

\* a < b on floats; every comparison with a NaN is false
FLt(a, b) ==
    IF IsNaN(a) \/ IsNaN(b) THEN FALSE
    ELSE IF IsInf(a) /\ IsInf(b) THEN a.sgn < b.sgn
    ELSE IF IsInf(a) THEN a.sgn < 0
    ELSE IF IsInf(b) THEN b.sgn > 0
    ELSE a.n * b.d < b.n * a.d

FEq(a, b) == ~IsNaN(a) /\ ~IsNaN(b) /\ ~FLt(a, b) /\ ~FLt(b, a)
FLe(a, b) == FLt(a, b) \/ FEq(a, b)
FGe(a, b) == FLe(b, a)

RECURSIVE SumSeq(_)
\* Series.sum(): NaN cells are skipped, the empty sum is 0
SumSeq(s) ==
    IF s = <<>> THEN F(0)
    ELSE IF IsNaN(Head(s)) THEN SumSeq(Tail(s))
    ELSE FAdd(Head(s), SumSeq(Tail(s)))

RECURSIVE CountSeq(_)
CountSeq(s) ==
    IF s = <<>> THEN 0
    ELSE (IF IsNaN(Head(s)) THEN 0 ELSE 1) + CountSeq(Tail(s))

\* Series.mean(): the mean of the cells that are not NaN, NaN if there are none
MeanSeq(s) ==
    IF CountSeq(s) = 0 THEN NaN ELSE FDiv(SumSeq(s), F(CountSeq(s)))

AllNaN(s) == \A i \in 1..Len(s) : IsNaN(s[i])

Col(table, c) == [i \in 1..Len(table.rows) |-> table.rows[i][c]]

-----------------------------------------------------------------------------
(* Tier classifiers.                                                       *)

GREEN == "green"
YELLOW == "yellow"
RED == "red"
WHITE == "white"

rag_emoji(value, thresholds) ==
    IF IsNaN(value) THEN WHITE
    \* a KeyError of thresholds[...] is caught by the except branch
    ELSE IF ~({"green", "yellow"} \subseteq DOMAIN thresholds) THEN WHITE
    ELSE IF FGe(value, thresholds["green"]) THEN GREEN
    ELSE IF FGe(value, thresholds["yellow"]) THEN YELLOW
    ELSE RED

\* rag_indicator with the two polarities exchanged
rag_indicator_swapped(value, green_thr, yellow_thr, reverse) ==
    IF reverse
    THEN IF FGe(value, green_thr) THEN GREEN
         ELSE IF FGe(value, yellow_thr) THEN YELLOW
         ELSE RED
    ELSE IF FLe(value, green_thr) THEN GREEN
         ELSE IF FLe(value, yellow_thr) THEN YELLOW
         ELSE RED

rag_indicator(value, green_thr, yellow_thr, reverse) ==
    IF reverse
    THEN IF FLe(value, green_thr) THEN GREEN
         ELSE IF FLe(value, yellow_thr) THEN YELLOW
         ELSE RED
    ELSE IF FGe(value, green_thr) THEN GREEN
         ELSE IF FGe(value, yellow_thr) THEN YELLOW
         ELSE RED

\* good >= watch >= risk
Rank(tier) == CASE tier = GREEN -> 2 [] tier = YELLOW -> 1 [] tier = RED -> 0
                [] OTHER -> -1

MetricValues == {F(i) : i \in (-MaxVal)..MaxVal} \cup {NaN, PosInf, NegInf}
ThresholdValues == {F(i) : i \in (-MaxVal)..MaxVal}

NoCall == [emoji |-> "none", ind |-> "none", ind_rev |-> "none",
           emoji2 |-> "none", ind2 |-> "none", ind_rev2 |-> "none"]

\* one evaluation of every classifier on (v1, thresholds) and (v2, thresholds)
Classify ==
    /\ cl_out = NoCall
    /\ LET th == [green |-> cl_in.green, yellow |-> cl_in.yellow]
       IN cl_out' =
            [emoji    |-> rag_emoji(cl_in.v1, th),
             ind      |-> rag_indicator(cl_in.v1, cl_in.green, cl_in.yellow, FALSE),
             ind_rev  |-> rag_indicator(cl_in.v1, cl_in.green, cl_in.yellow, TRUE),
             emoji2   |-> rag_emoji(cl_in.v2, th),
             ind2     |-> rag_indicator(cl_in.v2, cl_in.green, cl_in.yellow, FALSE),
             ind_rev2 |-> rag_indicator(cl_in.v2, cl_in.green, cl_in.yellow, TRUE)]
    /\ UNCHANGED <<cl_in, pipeVars>>

-----------------------------------------------------------------------------
(* Cells and tables.                                                       *)
(* A DataFrame is [cols, rows]: the set of its column names and the        *)
(* sequence of its rows, each a function from cols to cells.  A cell is a  *)
(* float, a string, a datetime, NaT, or Text (a string that parses neither *)
(* as a number nor as a date).                                             *)

Text == [t |-> "text"]
NaT == [t |-> "nat"]
Str(s) == [t |-> "str", s |-> s]
\* a datetime of the Sales table; the code reads its year and month only
Date(y, m) == [t |-> "date", y |-> y, m |-> m]
\* a datetime of the Expiry table: day number (day 0 = 2025-09-01) and tick
Stamp(day, tick) == [t |-> "stamp", at |-> day * TicksPerDay + tick]

Table(cols, rows) == [cols |-> cols, rows |-> rows]

\* df[c] = vals
SetCol(table, c, vals) ==
    [cols |-> table.cols \cup {c},
     rows |-> [i \in 1..Len(table.rows) |->
                 [k \in table.cols \cup {c} |->
                    IF k = c THEN vals[i] ELSE table.rows[i][k]]]]

\* the table without column c
DropCol(table, c) ==
    [cols |-> table.cols \ {c},
     rows |-> [i \in 1..Len(table.rows) |->
                 [k \in table.cols \ {c} |-> table.rows[i][k]]]]

SalesCols == {"Tanggal", "Produk", "Qty", "Harga", "Total", "Stok_Awal", "Sisa_Stok"}
ExpiryCols == {"Produk", "Batch_No", "Exp_Date", "Qty_Stok"}
PricingCols == {"Produk", "Harga_Beli", "Harga_Jual"}
PromoCols == {"Promosi", "Target_Sales", "Actual_Sales", "Biaya_Promosi"}

SalesRow(y, m, produk, qty, harga, total, awal, sisa) ==
    [Tanggal |-> Date(y, m), Produk |-> Str(produk), Qty |-> F(qty),
     Harga |-> F(harga), Total |-> F(total), Stok_Awal |-> F(awal),
     Sisa_Stok |-> F(sisa)]

SampleSales ==
    Table(SalesCols,
      << SalesRow(2025, 6, "Susu UHT 1L", 20, 15000, 20 * 15000, 100, 100 - 20),
         SalesRow(2025, 6, "Indomie Ayam", 50, 3000, 50 * 3000, 200, 200 - 50),
         SalesRow(2025, 6, "Teh Botol", 30, 5000, 30 * 5000, 150, 150 - 30),
         SalesRow(2025, 7, "Susu UHT 1L", 25, 15000, 25 * 15000, 100, 100 - 25),
         SalesRow(2025, 7, "Indomie Ayam", 80, 3000, 80 * 3000, 200, 200 - 80),
         SalesRow(2025, 8, "Teh Botol", 60, 5000, 60 * 5000, 150, 150 - 60),
         SalesRow(2025, 8, "Susu UHT 1L", 40, 15000, 40 * 15000, 100, 100 - 40),
         SalesRow(2025, 9, "Indomie Ayam", 150, 3000, 150 * 3000, 200, 200 - 150),
         SalesRow(2025, 9, "Susu UHT 1L", 70, 15000, 70 * 15000, 100, 100 - 70) >>)

ExpiryRow(produk, batch, exp, qty) ==
    [Produk |-> Str(produk), Batch_No |-> Str(batch), Exp_Date |-> exp,
     Qty_Stok |-> F(qty)]

\* 2025-09-25 is day 24 and 2025-10-15 is day 44
SampleExpiry ==
    Table(ExpiryCols,
      << ExpiryRow("Yogurt Cup", "YG202509", Stamp(24, 0), 100),
         ExpiryRow("Yogurt Cup", "YG202510", Stamp(44, 0), 200) >>)

PricingRow(produk, beli, jual) ==
    [Produk |-> Str(produk), Harga_Beli |-> beli, Harga_Jual |-> jual]

SamplePricing ==
    Table(PricingCols, << PricingRow("Beras 5kg", F(60000), F(72000)) >>)

PromoRow(promosi, target, actual, biaya) ==
    [Promosi |-> Str(promosi), Target_Sales |-> target, Actual_Sales |-> actual,
     Biaya_Promosi |-> biaya]

SamplePromo ==
    Table(PromoCols,
      << PromoRow("Susu UHT 1L", F(100000000), F(115000000), F(10000000)) >>)

load_sample_data ==
    [sales |-> SampleSales, expiry |-> SampleExpiry,
     pricing |-> SamplePricing, promo |-> SamplePromo]

\* float(x), NaN when it raises
safe_convert_num(x) == IF x.t \in {"num", "inf", "nan"} THEN x ELSE NaN

\* pd.to_datetime(x, errors='coerce') on a datetime, empty or string cell
to_datetime(x) == IF x.t \in {"date", "stamp"} THEN x ELSE NaT

-----------------------------------------------------------------------------
(* Upload handling, lines 72-93.                                           *)

NoFile == [kind |-> "none"]
\* an upload pd.ExcelFile cannot read
CorruptFile == [kind |-> "corrupt"]
\* a workbook: sheets is a function from its sheet names to their tables
Workbook(sheets) == [kind |-> "xlsx", sheets |-> sheets]

\* str.lower on the sheet names of the model
Lower(s) ==
    CASE s \in {"Sales Data", "SALES DATA", "sales data"} -> "sales data"
      [] s \in {"Expiry Data", "expiry data"} -> "expiry data"
      [] s \in {"Pricing Data", "PRICING DATA"} -> "pricing data"
      [] s \in {"Promo Data", "promo data"} -> "promo data"
      [] OTHER -> s

\* {s.lower(): s for s in xls.sheet_names}
sheet_names(xls) ==
    [k \in {Lower(s) : s \in DOMAIN xls.sheets} |->
        CHOOSE s \in DOMAIN xls.sheets : Lower(s) = k]

get_sheet(xls, name_lower, default_df) ==
    IF name_lower \in DOMAIN sheet_names(xls)
    THEN xls.sheets[sheet_names(xls)[name_lower]]
    ELSE default_df

EmptyTable == Table({}, <<>>)
NoKpi == [total_actual |-> NaN, total_target |-> NaN, pencapaian |-> NaN,
          combined_roi |-> NaN, avg_margin |-> NaN]
NoCards == [sales |-> "none", margin |-> "none", roi |-> "none"]
NoKpi2 == [total_sales |-> NaN, avg_margin |-> NaN, roi |-> NaN,
           stok_avail |-> NaN, expiry_risk |-> NaN]
NoCards2 == [sales |-> "none", margin |-> "none", roi |-> "none",
             stok |-> "none", expiry |-> "none"]

LoadData ==
    /\ pc = "load"
    /\ pc' = "normalize"
    /\ IF uploaded_file.kind = "xlsx"
       THEN /\ sales' = get_sheet(uploaded_file, "sales data", load_sample_data.sales)
            /\ expiry' = get_sheet(uploaded_file, "expiry data", load_sample_data.expiry)
            /\ pricing' = get_sheet(uploaded_file, "pricing data", load_sample_data.pricing)
            /\ promo' = get_sheet(uploaded_file, "promo data", load_sample_data.promo)
            /\ UNCHANGED messages
       ELSE /\ sales' = load_sample_data.sales
            /\ expiry' = load_sample_data.expiry
            /\ pricing' = load_sample_data.pricing
            /\ promo' = load_sample_data.promo
            /\ messages' = messages \cup
                 {IF uploaded_file.kind = "corrupt"
                  THEN "error: Gagal membaca file Excel"
                  ELSE "info: Menggunakan data contoh"}
    /\ UNCHANGED <<raised, uploaded_file, disk_file, today, kpi, cards, kpi2,
                   cards2, cl_in, cl_out>>
-----------------------------------------------------------------------------
(* Sales normalisation, lines 99-117.                                      *)

\* df[c] = df[c].apply(f)
ApplyCol(table, c, f(_)) ==
    SetCol(table, c, [i \in 1..Len(table.rows) |-> f(table.rows[i][c])])

RECURSIVE ConvertNumeric(_, _)
\* the loop of lines 107-109 over the columns of cs that the table has
ConvertNumeric(table, cs) ==
    IF cs = {} THEN table
    ELSE LET c == CHOOSE x \in cs : TRUE
             rest == ConvertNumeric(table, cs \ {c})
         IN IF c \in table.cols THEN ApplyCol(rest, c, safe_convert_num) ELSE rest

\* line 112: 'Total' not in sales.columns or sales['Total'].isnull().all()
TotalNeedsCompute(table) ==
    \/ "Total" \notin table.cols
    \/ AllNaN(Col(table, "Total"))

\* line 113: sales['Qty'] * sales['Harga']
QtyTimesHarga(table) ==
    [i \in 1..Len(table.rows) |->
        FMul(table.rows[i]["Qty"], table.rows[i]["Harga"])]

\* .dt.year of a datetime column
YearOf(x) == IF x.t = "date" THEN F(x.y) ELSE NaN
\* .dt.month == 6
IsJune(x) == x.t = "date" /\ x.m = 6

NormalizeSales ==
    /\ pc = "normalize"
    /\ LET dated == IF "Tanggal" \in sales.cols
                    THEN ApplyCol(sales, "Tanggal", to_datetime)
                    ELSE sales
           numeric == ConvertNumeric(dated, {"Qty", "Harga", "Total", "Stok_Awal", "Sisa_Stok"})
           compute == TotalNeedsCompute(numeric)
           totalled == IF compute /\ {"Qty", "Harga"} \subseteq numeric.cols
                       THEN SetCol(numeric, "Total", QtyTimesHarga(numeric))
                       ELSE numeric
       IN /\ messages' = messages
                \cup (IF "Tanggal" \in sales.cols THEN {}
                      ELSE {"error: Sheet Sales Data harus punya kolom 'Tanggal'"})
                \cup (IF "Produk" \in sales.cols THEN {}
                      ELSE {"error: Sheet Sales Data harus punya kolom 'Produk'"})
          /\ IF compute /\ ~({"Qty", "Harga"} \subseteq numeric.cols)
             THEN \* line 113: sales['Qty'] or sales['Harga'] raises
                  /\ sales' = numeric
                  /\ pc' = "raised"
                  /\ raised' = "KeyError at line 113"
             ELSE IF "Tanggal" \notin sales.cols
             THEN \* line 117: sales['Tanggal'] raises
                  /\ sales' = totalled
                  /\ pc' = "raised"
                  /\ raised' = "KeyError at line 117"
             ELSE /\ sales' = SetCol(totalled, "Year",
                        [i \in 1..Len(totalled.rows) |->
                            YearOf(totalled.rows[i]["Tanggal"])])
                  /\ pc' = "baseline"
                  /\ UNCHANGED raised
    /\ UNCHANGED <<uploaded_file, disk_file, today, expiry, pricing, promo,
                   kpi, cards, kpi2, cards2, cl_in, cl_out>>

-----------------------------------------------------------------------------
(* June baseline and trend, lines 123-143.                                 *)

Key(row) == <<row["Produk"], row["Year"]>>

\* the groups of june_totals formed on the product alone
JuneTotalsByProduct(table) ==
    LET june == {i \in 1..Len(table.rows) : IsJune(table.rows[i]["Tanggal"])}
        keys == {Key(table.rows[i]) : i \in 1..Len(table.rows)}
        has(k) == \E i \in june : table.rows[i]["Produk"] = k[1]
    IN [k \in {k \in keys : has(k)} |->
          SumSeq([i \in 1..Len(table.rows) |->
                    IF i \in june /\ table.rows[i]["Produk"] = k[1]
                    THEN table.rows[i]["Total"] ELSE NaN])]

\* june_totals: the June rows grouped by (Produk, Year), Total summed;
\* a function from the keys that have a June row to the sum
JuneTotals(table) ==
    LET june == {i \in 1..Len(table.rows) : IsJune(table.rows[i]["Tanggal"])}
    IN [k \in {Key(table.rows[i]) : i \in june} |->
          SumSeq([i \in 1..Len(table.rows) |->
                    IF i \in june /\ Key(table.rows[i]) = k
                    THEN table.rows[i]["Total"] ELSE NaN])]

\* sales.merge(june_totals, on=['Produk','Year'], how='left')
MergeJune(table, june_totals) ==
    SetCol(table, "JuneTotal",
        [i \in 1..Len(table.rows) |->
            IF Key(table.rows[i]) \in DOMAIN june_totals
            THEN june_totals[Key(table.rows[i])]
            ELSE NaN])

compute_trend(row) ==
    LET jt == row["JuneTotal"]
        total == row["Total"]
    IN IF IsNaN(jt) \/ FEq(jt, F(0)) THEN NaN
       ELSE FSub(FDiv(total, jt), F(1))

BaselineTrend ==
    /\ pc = "baseline"
    /\ IF "Produk" \notin sales.cols
       THEN \* line 124: groupby(['Produk','Year']) raises
            /\ pc' = "raised"
            /\ raised' = "KeyError at line 124"
            /\ UNCHANGED sales
       ELSE LET merged == MergeJune(sales, JuneTotals(sales))
            IN /\ sales' = SetCol(merged, "Trend_vs_Juni",
                     [i \in 1..Len(merged.rows) |-> compute_trend(merged.rows[i])])
               /\ pc' = "kpi"
               /\ UNCHANGED raised
    /\ UNCHANGED <<messages, uploaded_file, disk_file, today, expiry, pricing,
                   promo, kpi, cards, kpi2, cards2, cl_in, cl_out>>
-----------------------------------------------------------------------------
(* KPI calculations, lines 149-168, and KPI cards, lines 173-196.          *)

\* line 155 dividing whatever the target sum is
Pencapaian_unguarded(total_actual, total_target) ==
    FDiv(total_actual, total_target)

\* line 155: (total_actual / total_target) if total_target and total_target != 0
Pencapaian(total_actual, total_target) ==
    IF ~FEq(total_target, F(0)) THEN FDiv(total_actual, total_target) ELSE NaN

\* line 159: (Harga_Jual - Harga_Beli) / Harga_Jual, element-wise
MarginPct(row) ==
    FDiv(FSub(row["Harga_Jual"], row["Harga_Beli"]), row["Harga_Jual"])

\* the lambda of line 165; a NaN cost is truthy and unequal to 0
RoiOf(r) ==
    IF ~FEq(r["Biaya_Promosi"], F(0))
    THEN FDiv(FSub(r["Actual_Sales"], r["Target_Sales"]), r["Biaya_Promosi"])
    ELSE NaN

sales_thresholds == [green |-> F(1), yellow |-> Frac(8, 10)]
margin_thresholds == [green |-> Frac(20, 100), yellow |-> Frac(15, 100)]
roi_thresholds == [green |-> F(1), yellow |-> Frac(5, 10)]

KPICalc ==
    /\ pc = "kpi"
    /\ LET need == {"Target_Sales", "Actual_Sales", "Biaya_Promosi"}
           conv == ConvertNumeric(promo, need)
           total_actual == SumSeq(Col(conv, "Actual_Sales"))
           total_target == SumSeq(Col(conv, "Target_Sales"))
           priced == {"Harga_Beli", "Harga_Jual"} \subseteq pricing.cols
           typed == \A i \in 1..Len(pricing.rows) :
                        /\ pricing.rows[i]["Harga_Beli"].t \in {"num", "inf", "nan"}
                        /\ pricing.rows[i]["Harga_Jual"].t \in {"num", "inf", "nan"}
           margins == SetCol(pricing, "Margin_pct",
                        [i \in 1..Len(pricing.rows) |->
                            IF priced THEN MarginPct(pricing.rows[i]) ELSE NaN])
           withRoi == SetCol(conv, "ROI",
                        [i \in 1..Len(conv.rows) |-> RoiOf(conv.rows[i])])
       IN IF ~(need \subseteq promo.cols)
          THEN \* lines 149-151: promo[...] raises on the first missing column
               /\ promo' = ConvertNumeric(promo,
                     IF "Target_Sales" \notin promo.cols THEN {}
                     ELSE IF "Actual_Sales" \notin promo.cols THEN {"Target_Sales"}
                     ELSE {"Target_Sales", "Actual_Sales"})
               /\ pc' = "raised"
               /\ raised' = "KeyError at lines 149-151"
               /\ UNCHANGED <<pricing, kpi>>
          ELSE IF priced /\ ~typed
          THEN \* line 159: arithmetic on a string cell raises
               /\ promo' = conv
               /\ kpi' = [kpi EXCEPT !.total_actual = total_actual,
                                     !.total_target = total_target,
                                     !.pencapaian = Pencapaian(total_actual, total_target)]
               /\ pc' = "raised"
               /\ raised' = "TypeError at line 159"
               /\ UNCHANGED pricing
          ELSE \* line 165: DataFrame.apply(axis=1) on a frame without rows gives
               \* a frame, not a Series; assigning it to one column raises or is
               \* accepted, depending on the pandas release
               \E apply_raises \in (IF Len(promo.rows) = 0 THEN BOOLEAN ELSE {FALSE}) :
                   /\ pricing' = margins
                   /\ promo' = IF apply_raises THEN conv ELSE withRoi
                   /\ kpi' = [kpi EXCEPT
                         !.total_actual = total_actual,
                         !.total_target = total_target,
                         !.pencapaian = Pencapaian(total_actual, total_target),
                         !.combined_roi = IF apply_raises THEN @
                                          ELSE MeanSeq(Col(withRoi, "ROI"))]
                   /\ pc' = IF apply_raises THEN "raised" ELSE "cards"
                   /\ raised' = IF apply_raises THEN "ValueError at line 165" ELSE raised
    /\ UNCHANGED <<messages, uploaded_file, disk_file, today, sales, expiry,
                   cards, kpi2, cards2, cl_in, cl_out>>

\* line 189: the mean margin, NaN when every margin is NaN
AvgMargin(table) ==
    IF ~AllNaN(Col(table, "Margin_pct")) THEN MeanSeq(Col(table, "Margin_pct")) ELSE NaN

KPICards ==
    /\ pc = "cards"
    /\ kpi' = [kpi EXCEPT !.avg_margin = AvgMargin(pricing)]
    /\ cards' = [sales  |-> rag_emoji(kpi.pencapaian, sales_thresholds),
                 margin |-> rag_emoji(AvgMargin(pricing), margin_thresholds),
                 roi    |-> rag_emoji(kpi.combined_roi, roi_thresholds)]
    /\ pc' = "sales_table"
    /\ UNCHANGED <<raised, messages, uploaded_file, disk_file, today, sales,
                   expiry, pricing, promo, kpi2, cards2, cl_in, cl_out>>

-----------------------------------------------------------------------------
(* Trend chart and sales table, lines 201-265.  The chart, the styling and *)
(* the display-only columns are not modelled; the column selection is.     *)

SalesTable ==
    /\ pc = "sales_table"
    /\ IF {"Tanggal", "Produk", "Qty", "Harga", "Total", "Stok_Awal", "Sisa_Stok"}
            \subseteq sales.cols
       THEN pc' = "expiry" /\ UNCHANGED raised
       ELSE \* line 246: display_sales[[...]] raises on a missing column
            pc' = "raised" /\ raised' = "KeyError at line 246"
    /\ UNCHANGED <<messages, uploaded_file, disk_file, today, sales, expiry,
                   pricing, promo, kpi, cards, kpi2, cards2, cl_in, cl_out>>

-----------------------------------------------------------------------------
(* Expiry monitoring, lines 270-276.  Lines 281-318 render the pricing and *)
(* promo tables and the downloads; the sidebar checkbox keeps its default  *)
(* (False), so lines 315-318 do not run.                                   *)

AlmostExpiredDays == 30

\* (Exp_Date - pd.Timestamp.today()).dt.days: the whole days of the
\* difference, rounded down; NaN for NaT
DaysToExpiry(exp, now) ==
    IF exp.t = "stamp" THEN F((exp.at - now) \div TicksPerDay) ELSE NaN

\* the lambda of line 273 with the tests in the opposite order
StatusOf_ok_last(d) ==
    IF FLt(F(AlmostExpiredDays), d) THEN "OK"
    ELSE IF FGe(d, F(0)) THEN "Almost expired"
    ELSE "Expired"

\* the lambda of line 273
StatusOf(d) ==
    IF FLt(d, F(0)) THEN "Expired"
    ELSE IF FLe(d, F(AlmostExpiredDays)) THEN "Almost expired"
    ELSE "OK"

ExpiryMonitoring ==
    /\ pc = "expiry"
    /\ IF "Exp_Date" \notin expiry.cols
       THEN \* line 271: expiry['Exp_Date'] raises
            /\ pc' = "raised"
            /\ raised' = "KeyError at line 271"
            /\ UNCHANGED expiry
       ELSE LET dated == ApplyCol(expiry, "Exp_Date", to_datetime)
                days == SetCol(dated, "Days_to_Expiry",
                          [i \in 1..Len(dated.rows) |->
                              DaysToExpiry(dated.rows[i]["Exp_Date"], today)])
                status == SetCol(days, "Status",
                          [i \in 1..Len(days.rows) |->
                              StatusOf(days.rows[i]["Days_to_Expiry"])])
            IN /\ expiry' = status
               /\ IF {"Produk", "Batch_No", "Qty_Stok"} \subseteq expiry.cols
                  THEN pc' = "second_load" /\ UNCHANGED raised
                  ELSE \* line 276: expiry[[...]] raises on a missing column
                       pc' = "raised" /\ raised' = "KeyError at line 276"
    /\ UNCHANGED <<messages, uploaded_file, disk_file, today, sales, pricing,
                   promo, kpi, cards, kpi2, cards2, cl_in, cl_out>>
-----------------------------------------------------------------------------
(* Second dashboard, lines 349-396: the tables are read again from the     *)
(* workbook at a fixed path, by exact sheet name.  Its cells are taken to  *)
(* be well typed (numbers, datetimes or empty).                            *)

RiskWindowDays == 30

SecondLoad ==
    /\ pc = "second_load"
    /\ IF disk_file.kind # "xlsx"
       THEN \* line 354: pd.ExcelFile(file_path) raises
            /\ pc' = "raised"
            /\ raised' = "FileNotFoundError at line 354"
            /\ UNCHANGED <<sales, pricing, promo, expiry>>
       ELSE LET has(name) == name \in DOMAIN disk_file.sheets
                read(name, old) == IF has(name) THEN disk_file.sheets[name] ELSE old
                \* the reads of lines 356-359, in order, up to the first that raises
                ok1 == has("Sales Data")
                ok2 == ok1 /\ has("Pricing Data")
                ok3 == ok2 /\ has("Promo Data")
                ok4 == ok3 /\ has("Expiry Data")
            IN /\ sales' = IF ok1 THEN read("Sales Data", sales) ELSE sales
               /\ pricing' = IF ok2 THEN read("Pricing Data", pricing) ELSE pricing
               /\ promo' = IF ok3 THEN read("Promo Data", promo) ELSE promo
               /\ expiry' = IF ok4 THEN read("Expiry Data", expiry) ELSE expiry
               /\ pc' = IF ok4 THEN "second_kpi" ELSE "raised"
               /\ raised' = IF ok4 THEN raised ELSE "ValueError at lines 356-359"
    /\ UNCHANGED <<messages, uploaded_file, disk_file, today, kpi, cards,
                   kpi2, cards2, cl_in, cl_out>>

\* line 366: Qty_Stok summed over the lots with Exp_Date <= today + 30 days
ExpiryRisk(table, now) ==
    SumSeq([i \in 1..Len(table.rows) |->
              IF /\ table.rows[i]["Exp_Date"].t = "stamp"
                 /\ table.rows[i]["Exp_Date"].at <= now + RiskWindowDays * TicksPerDay
              THEN table.rows[i]["Qty_Stok"] ELSE NaN])

SecondKPI ==
    /\ pc = "second_kpi"
    /\ IF /\ {"Total", "Sisa_Stok", "Stok_Awal"} \subseteq sales.cols
          /\ {"Harga_Jual", "Harga_Beli"} \subseteq pricing.cols
          /\ {"Actual_Sales", "Target_Sales", "Biaya_Promosi"} \subseteq promo.cols
          /\ {"Exp_Date", "Qty_Stok"} \subseteq expiry.cols
       THEN /\ kpi2' =
                 [total_sales |-> SumSeq(Col(sales, "Total")),
                  avg_margin  |-> MeanSeq([i \in 1..Len(pricing.rows) |->
                                              MarginPct(pricing.rows[i])]),
                  roi         |-> FDiv(FSub(SumSeq(Col(promo, "Actual_Sales")),
                                            SumSeq(Col(promo, "Target_Sales"))),
                                       SumSeq(Col(promo, "Biaya_Promosi"))),
                  stok_avail  |-> FDiv(SumSeq(Col(sales, "Sisa_Stok")),
                                       SumSeq(Col(sales, "Stok_Awal"))),
                  expiry_risk |-> ExpiryRisk(expiry, today)]
            /\ pc' = "second_cards"
            /\ UNCHANGED raised
       ELSE \* lines 362-366: a missing column raises
            /\ pc' = "raised"
            /\ raised' = "KeyError at lines 362-366"
            /\ UNCHANGED kpi2
    /\ UNCHANGED <<messages, uploaded_file, disk_file, today, sales, expiry,
                   pricing, promo, kpi, cards, cards2, cl_in, cl_out>>

SecondCards ==
    /\ pc = "second_cards"
    /\ cards2' =
         [sales  |-> rag_indicator(kpi2.total_sales, F(100000000), F(50000000), FALSE),
          margin |-> rag_indicator(kpi2.avg_margin, Frac(25, 100), Frac(15, 100), FALSE),
          roi    |-> rag_indicator(kpi2.roi, F(1), F(0), FALSE),
          stok   |-> rag_indicator(kpi2.stok_avail, Frac(7, 10), Frac(4, 10), FALSE),
          expiry |-> rag_indicator(kpi2.expiry_risk, F(100), F(500), TRUE)]
    /\ pc' = "done"
    /\ UNCHANGED <<raised, messages, uploaded_file, disk_file, today, sales,
                   expiry, pricing, promo, kpi, cards, kpi2, cl_in, cl_out>>

\* one run of the script
Run ==
    \/ LoadData
    \/ NormalizeSales
    \/ BaselineTrend
    \/ KPICalc
    \/ KPICards
    \/ SalesTable
    \/ ExpiryMonitoring
    \/ SecondLoad
    \/ SecondKPI
    \/ SecondCards
-----------------------------------------------------------------------------
(* Inputs of a run.                                                        *)

\* the tables of an uploaded workbook, all columns present
UpSales ==
    Table(SalesCols,
      << SalesRow(2025, 6, "Gula 1kg", 4, 5, 20, 10, 6),
         SalesRow(2025, 7, "Gula 1kg", 6, 5, 30, 10, 4) >>)
UpExpiry == Table(ExpiryCols, << ExpiryRow("Keju", "KJ01", Stamp(10, 0), 7) >>)
UpPricing == Table(PricingCols, << PricingRow("Gula 1kg", F(3), F(5)) >>)
UpPromo == Table(PromoCols, << PromoRow("Gula 1kg", F(10), F(9), F(2)) >>)

\* the tables of the workbook at the fixed path
DiskSales ==
    Table(SalesCols, << SalesRow(2025, 6, "Kopi", 3, 7, 21, 8, 5) >>)
DiskExpiry == Table(ExpiryCols, << ExpiryRow("Roti", "RT01", Stamp(3, 0), 120) >>)
DiskPricing == Table(PricingCols, << PricingRow("Kopi", F(3), F(4)) >>)
DiskPromo == Table(PromoCols, << PromoRow("Kopi", F(8), F(12), F(2)) >>)

DiskBook ==
    Workbook("Sales Data" :> DiskSales @@ "Expiry Data" :> DiskExpiry
             @@ "Pricing Data" :> DiskPricing @@ "Promo Data" :> DiskPromo)

\* a workbook whose only sheet is `name`
OneSheet(name, table) == Workbook(name :> table)

\* a clock reading on day 1
Noon == TicksPerDay + 1

NoArgs == [v1 |-> NaN, v2 |-> NaN, green |-> F(0), yellow |-> F(0)]

\* the state in which a run starts, given its inputs
StartRun(up, disk, now) ==
    /\ pc = "load"
    /\ raised = "none"
    /\ messages = {}
    /\ uploaded_file = up
    /\ disk_file = disk
    /\ today = now
    /\ sales = EmptyTable
    /\ expiry = EmptyTable
    /\ pricing = EmptyTable
    /\ promo = EmptyTable
    /\ kpi = NoKpi
    /\ cards = NoCards
    /\ kpi2 = NoKpi2
    /\ cards2 = NoCards2
    /\ cl_in = NoArgs
    /\ cl_out = NoCall

\* the sequences of at most n row numbers out of 1..k, in ascending order
\* (the order of the rows of a sheet does not enter any formula of the code)
RowChoices(n, k) ==
    UNION {{f \in [1..m -> 1..k] : \A i \in 1..(m - 1) : f[i] <= f[i + 1]} : m \in 0..n}

-----------------------------------------------------------------------------
(* Runs over sheet and schema variations.                                  *)

\* the sheets an upload may hold under each lower-cased name: the full table
\* under two spellings, or the table with one column missing
SheetChoices(names, table) ==
    {<<n, table>> : n \in names}
      \cup {<<CHOOSE n \in names : Lower(n) # n, DropCol(table, c)>> : c \in table.cols}

RECURSIVE BookOf(_)
\* the sheets function of a set of <<name, table>> pairs
BookOf(pairs) ==
    IF pairs = {} THEN <<>>
    ELSE LET p == CHOOSE x \in pairs : TRUE
         IN (p[1] :> p[2]) @@ BookOf(pairs \ {p})

UploadBooks ==
    {Workbook(BookOf(s \cup e \cup p \cup m)) :
        s \in {{}} \cup {{x} : x \in SheetChoices({"Sales Data", "SALES DATA"}, UpSales)},
        e \in {{}} \cup {{x} : x \in SheetChoices({"Expiry Data", "expiry data"}, UpExpiry)},
        p \in {{}} \cup {{x} : x \in SheetChoices({"Pricing Data", "PRICING DATA"}, UpPricing)},
        m \in {{}} \cup {{x} : x \in SheetChoices({"Promo Data", "promo data"}, UpPromo)}}

DiskFiles ==
    {NoFile, DiskBook,
     Workbook("Sales Data" :> DiskSales @@ "Expiry Data" :> DiskExpiry
              @@ "Pricing Data" :> DiskPricing)}

Init ==
    \E up \in {NoFile, CorruptFile} \cup UploadBooks, disk \in DiskFiles :
        StartRun(up, disk, Noon)

Next == Run

Spec == Init /\ [][Next]_vars

-----------------------------------------------------------------------------
(* Classifier runs.                                                        *)

InitClassify ==
    /\ pc = "idle"
    /\ raised = "none"
    /\ messages = {}
    /\ uploaded_file = NoFile
    /\ disk_file = NoFile
    /\ today = 0
    /\ sales = EmptyTable
    /\ expiry = EmptyTable
    /\ pricing = EmptyTable
    /\ promo = EmptyTable
    /\ kpi = NoKpi
    /\ cards = NoCards
    /\ kpi2 = NoKpi2
    /\ cards2 = NoCards2
    /\ cl_in \in [v1 : MetricValues, v2 : MetricValues,
                  green : ThresholdValues, yellow : ThresholdValues]
    /\ cl_out = NoCall

NextClassify == Classify

SpecClassify == InitClassify /\ [][NextClassify]_vars
-----------------------------------------------------------------------------
(* Claims about the tier classifiers (SpecClassify).                       *)

Classified == cl_out # NoCall

\* C1: every tier classifier returns the unknown tier, never red, for an
\* undefined (NaN) metric value, whatever the two thresholds are.
C1_UndefinedIsUnknown ==
    (Classified /\ IsNaN(cl_in.v1)) =>
        /\ cl_out.emoji = WHITE
        /\ cl_out.ind = WHITE
        /\ cl_out.ind_rev = WHITE

\* C9: for defined v1 <= v2, a classifier of normal polarity with
\* green >= yellow never ranks v2 below v1, and the classifier of reversed
\* polarity with green <= yellow never ranks v2 above v1.
C9_Monotone ==
    (Classified /\ ~IsNaN(cl_in.v1) /\ ~IsNaN(cl_in.v2) /\ FLe(cl_in.v1, cl_in.v2)) =>
        /\ FGe(cl_in.green, cl_in.yellow) =>
              /\ Rank(cl_out.emoji2) >= Rank(cl_out.emoji)
              /\ Rank(cl_out.ind2) >= Rank(cl_out.ind)
        /\ FLe(cl_in.green, cl_in.yellow) =>
              Rank(cl_out.ind_rev2) <= Rank(cl_out.ind_rev)

\* C9 witness: thresholds 1 = green = yellow serve both polarities; v1 = 0 is
\* below and v2 = 2 above them, and the tiers of the two values differ
C9_Witness ==
    /\ Classified
    /\ cl_in = [v1 |-> F(0), v2 |-> F(2), green |-> F(1), yellow |-> F(1)]
    /\ cl_out.emoji = RED /\ cl_out.emoji2 = GREEN
    /\ cl_out.ind = RED /\ cl_out.ind2 = GREEN
    /\ cl_out.ind_rev = GREEN /\ cl_out.ind_rev2 = RED

-----------------------------------------------------------------------------
(* Claims about sheets and schema gaps (Spec).                             *)

\* the table restricted to the columns of cols
Base(table, cols) ==
    [cols |-> table.cols \cap cols,
     rows |-> [i \in 1..Len(table.rows) |->
                 [k \in table.cols \cap cols |-> table.rows[i][k]]]]

\* the upload is a workbook with a sheet of this lower-cased name
HasSheet(name_lower) ==
    /\ uploaded_file.kind = "xlsx"
    /\ \E s \in DOMAIN uploaded_file.sheets : Lower(s) = name_lower

SheetOf(name_lower) ==
    uploaded_file.sheets[CHOOSE s \in DOMAIN uploaded_file.sheets : Lower(s) = name_lower]

\* an uploaded sheet lacks one of the columns the code expects
SchemaGap ==
    \/ HasSheet("sales data") /\ SheetOf("sales data").cols # SalesCols
    \/ HasSheet("expiry data") /\ SheetOf("expiry data").cols # ExpiryCols
    \/ HasSheet("pricing data") /\ SheetOf("pricing data").cols # PricingCols
    \/ HasSheet("promo data") /\ SheetOf("promo data").cols # PromoCols

\* the exceptions a missing column of a loaded table raises
SchemaErrors ==
    {"KeyError at line 113", "KeyError at line 117", "KeyError at line 124",
     "KeyError at lines 149-151", "KeyError at line 246", "KeyError at line 271",
     "KeyError at line 276"}

\* C7: with a schema gap in the input the pipeline runs to completion: no
\* step raises on the missing column or halts the run.
C7_SchemaGapNeverHalts ==
    SchemaGap => raised \notin SchemaErrors

\* each table in use is the sample table if its sheet is absent from the
\* input and the uploaded sheet (here: one without a schema gap) otherwise
FallbackLaw ==
    /\ ~HasSheet("sales data") => Base(sales, SalesCols) = SampleSales
    /\ ~HasSheet("expiry data") => Base(expiry, ExpiryCols) = SampleExpiry
    /\ ~HasSheet("pricing data") => Base(pricing, PricingCols) = SamplePricing
    /\ ~HasSheet("promo data") => Base(promo, PromoCols) = SamplePromo
    /\ (HasSheet("sales data") /\ ~SchemaGap) =>
          Base(sales, SalesCols) = SheetOf("sales data")
    /\ (HasSheet("expiry data") /\ ~SchemaGap) =>
          Base(expiry, ExpiryCols) = SheetOf("expiry data")
    /\ (HasSheet("pricing data") /\ ~SchemaGap) =>
          Base(pricing, PricingCols) = SheetOf("pricing data")
    /\ (HasSheet("promo data") /\ ~SchemaGap) =>
          Base(promo, PromoCols) = SheetOf("promo data")

\* the fallback law in the first dashboard, lines 72-318
FirstDashboardFallback ==
    (/\ pc \notin {"load", "second_kpi", "second_cards", "done"}
     /\ raised \notin {"FileNotFoundError at line 354", "ValueError at lines 356-359",
                       "KeyError at lines 362-366"})
        => FallbackLaw

\* C8: for each of the four sheets, once the tables are loaded, every later
\* computation works on the sample table if the sheet is absent from the
\* input (or no input was read) and on the uploaded sheet otherwise.
C8_FallbackEverywhere ==
    pc # "load" => FallbackLaw
-----------------------------------------------------------------------------
(* Runs over expiry lots and clock readings (SpecExpiry).                  *)

\* the Exp_Date cells of an uploaded lot: a datetime, a string that is no
\* date, or an empty cell
ExpDateCells ==
    {Stamp(d, k) : d \in 0..(AlmostExpiredDays + MaxDay + 1), k \in 0..(TicksPerDay - 1)}
      \cup {Text, NaN}

InitExpiry ==
    \E exp \in ExpDateCells, now \in 0..((MaxDay + 1) * TicksPerDay - 1) :
        StartRun(OneSheet("Expiry Data",
                          Table(ExpiryCols,
                                << ExpiryRow("Keju", "KJ01", exp, 7),
                                   ExpiryRow("Keju", "KJ02", Stamp(MaxDay, 0), 9) >>)),
                 DiskBook, now)

SpecExpiry == InitExpiry /\ [][Next]_vars

\* the expiry table of the first dashboard has its Status column
StatusComputed == "Status" \in expiry.cols

\* the calendar day of a clock reading
DayOf(at) == at \div TicksPerDay

\* C2: with days = expiry date - reference date, a lot is Expired when
\* days < 0, Almost expired when 0 <= days <= 30 and OK when days > 30
\* (so reference date + 30 days is Almost expired, + 31 days OK, - 1 day Expired).
C2_StatusByCalendarDays ==
    StatusComputed =>
        \A i \in 1..Len(expiry.rows) :
            LET exp == expiry.rows[i]["Exp_Date"]
                days == DayOf(exp.at) - DayOf(today)
            IN exp.t = "stamp" =>
                  expiry.rows[i]["Status"] =
                      IF days < 0 THEN "Expired"
                      ELSE IF days <= 30 THEN "Almost expired"
                      ELSE "OK"

\* C10: every lot gets exactly one of the three statuses, and a lot whose
\* expiry date is missing or unparsable has undefined days-to-expiry and
\* the status OK.
C10_UndatedLotIsOK ==
    StatusComputed =>
        \A i \in 1..Len(expiry.rows) :
            /\ expiry.rows[i]["Status"] \in {"Expired", "Almost expired", "OK"}
            /\ SheetOf("expiry data").rows[i]["Exp_Date"].t # "stamp" =>
                  /\ IsNaN(expiry.rows[i]["Days_to_Expiry"])
                  /\ expiry.rows[i]["Status"] = "OK"

C10_Witness ==
    /\ StatusComputed
    /\ SheetOf("expiry data").rows[1]["Exp_Date"] = Text
    /\ expiry.rows[1]["Status"] = "OK"
    /\ expiry.rows[2]["Status"] = "Expired"

-----------------------------------------------------------------------------
(* Runs over sales rows (SpecTrend, SpecTotal).                            *)

\* (Tanggal, Produk) of the sales rows of SpecTrend: two products, two
\* years, June and July, and a date that does not parse
TrendKeys ==
    << <<Date(2025, 6), "A">>, <<Date(2025, 7), "A">>, <<Date(2024, 6), "A">>,
       <<Date(2025, 6), "B">>, <<Date(2025, 7), "B">>, <<Text, "A">> >>
\* their supplied Total cells
TrendTotals == << NaN, F(0), F(2), F(-2) >>

TrendRow(k) ==
    LET key == TrendKeys[((k - 1) \div Len(TrendTotals)) + 1]
        total == TrendTotals[((k - 1) % Len(TrendTotals)) + 1]
    IN [Tanggal |-> key[1], Produk |-> Str(key[2]), Qty |-> F(2), Harga |-> F(3),
        Total |-> total, Stok_Awal |-> F(10), Sisa_Stok |-> F(8)]

InitTrend ==
    \E f \in RowChoices(MaxSalesRows, Len(TrendKeys) * Len(TrendTotals)) :
        StartRun(OneSheet("Sales Data",
                          Table(SalesCols, [i \in 1..Len(f) |-> TrendRow(f[i])])),
                 DiskBook, Noon)

SpecTrend == InitTrend /\ [][Next]_vars

TrendComputed == "Trend_vs_Juni" \in sales.cols

\* B of a record: the sum of Total over the June records with its product
\* and year (undefined totals are skipped, as Series.sum does)
JuneSet(i) ==
    {j \in 1..Len(sales.rows) :
        /\ sales.rows[j]["Tanggal"].t = "date"
        /\ sales.rows[j]["Tanggal"].m = 6
        /\ sales.rows[i]["Tanggal"].t = "date"
        /\ sales.rows[j]["Tanggal"].y = sales.rows[i]["Tanggal"].y
        /\ sales.rows[j]["Produk"] = sales.rows[i]["Produk"]}

JuneSum(i) ==
    SumSeq([j \in 1..Len(sales.rows) |->
              IF j \in JuneSet(i) THEN sales.rows[j]["Total"] ELSE NaN])

\* C3: Trend_vs_Juni(r) = r.Total / B - 1, B the June sum of r's own
\* (Produk, Year); undefined when the group has no June record or B = 0;
\* June records of another product or year never enter B.
C3_TrendVsOwnJune ==
    TrendComputed =>
        \A i \in 1..Len(sales.rows) :
            sales.rows[i]["Trend_vs_Juni"] =
                IF JuneSet(i) = {} \/ FEq(JuneSum(i), F(0)) THEN NaN
                ELSE FSub(FDiv(sales.rows[i]["Total"], JuneSum(i)), F(1))

\* C3 witness: two June 2025 rows of A (2 + 2), a June 2024 row of A, and
\* the July 2025 row of A has the trend 2/4 - 1
C3_Witness ==
    /\ TrendComputed
    /\ Len(sales.rows) = 3
    /\ \E i \in 1..3 :
          /\ sales.rows[i]["Tanggal"] = Date(2025, 7)
          /\ Cardinality(JuneSet(i)) = 2
          /\ sales.rows[i]["Trend_vs_Juni"] = Frac(-1, 2)

\* the Qty, Harga and Total cells of the sales rows of SpecTotal
TotalQty == << NaN, Text, F(2) >>
TotalHarga == << NaN, F(3) >>
TotalTotal == << NaN, Text, F(5) >>

TotalRow(k) ==
    LET q == TotalQty[((k - 1) % Len(TotalQty)) + 1]
        h == TotalHarga[(((k - 1) \div Len(TotalQty)) % Len(TotalHarga)) + 1]
        t == TotalTotal[((k - 1) \div (Len(TotalQty) * Len(TotalHarga))) + 1]
    IN [Tanggal |-> Date(2025, 6), Produk |-> Str("A"), Qty |-> q, Harga |-> h,
        Total |-> t, Stok_Awal |-> F(10), Sisa_Stok |-> F(8)]

InitTotal ==
    \E f \in RowChoices(MaxSalesRows, Len(TotalQty) * Len(TotalHarga) * Len(TotalTotal)),
       with_total \in BOOLEAN :
        LET full == Table(SalesCols, [i \in 1..Len(f) |-> TotalRow(f[i])])
        IN StartRun(OneSheet("Sales Data",
                             IF with_total THEN full ELSE DropCol(full, "Total")),
                    DiskBook, Noon)

SpecTotal == InitTotal /\ [][Next]_vars

\* the sales table of the first dashboard is normalised
SalesNormalized == "Year" \in sales.cols

\* C4: a record with defined quantity q and price p whose supplied total is
\* absent or undefined has Total = q * p after normalisation, whatever the
\* totals of the other records are.
C4_TotalIsQtyTimesPrice ==
    SalesNormalized =>
        \A i \in 1..Len(sales.rows) :
            LET raw == SheetOf("sales data").rows[i]
                q == safe_convert_num(raw["Qty"])
                h == safe_convert_num(raw["Harga"])
                supplied == IF "Total" \in DOMAIN raw
                            THEN safe_convert_num(raw["Total"]) ELSE NaN
            IN (~IsNaN(q) /\ ~IsNaN(h) /\ IsNaN(supplied)) =>
                  sales.rows[i]["Total"] = FMul(q, h)
-----------------------------------------------------------------------------
(* Runs over promotion tables (SpecPromo).                                 *)

PromoTarget == << NaN, Text, F(0), F(2), F(-2) >>
PromoActual == << NaN, F(0), F(3) >>
PromoBiaya == << F(0), F(2) >>

PromoRowOf(k) ==
    LET t == PromoTarget[((k - 1) % Len(PromoTarget)) + 1]
        a == PromoActual[(((k - 1) \div Len(PromoTarget)) % Len(PromoActual)) + 1]
        b == PromoBiaya[((k - 1) \div (Len(PromoTarget) * Len(PromoActual))) + 1]
    IN PromoRow("Promo", t, a, b)

InitPromo ==
    \E f \in RowChoices(MaxPromoRows, Len(PromoTarget) * Len(PromoActual) * Len(PromoBiaya)) :
        StartRun(OneSheet("Promo Data",
                          Table(PromoCols, [i \in 1..Len(f) |-> PromoRowOf(f[i])])),
                 DiskBook, Noon)

SpecPromo == InitPromo /\ [][Next]_vars

\* line 155 has been executed
AttainmentComputed == ~IsNaN(kpi.total_target)

\* the sum of the cells of a column of the uploaded promo sheet that are numbers
RECURSIVE InputSum(_, _)
InputSum(c, n) ==
    IF n = 0 THEN F(0)
    ELSE LET x == SheetOf("promo data").rows[n][c]
         IN IF x.t = "num" THEN FAdd(InputSum(c, n - 1), x) ELSE InputSum(c, n - 1)

\* C5: the sales-attainment KPI is sum(Actual_Sales) / sum(Target_Sales)
\* when the target sum is not 0; when it is 0 (all targets undefined or an
\* empty table included) the KPI is undefined and its card shows the
\* unknown tier, never red.
C5_AttainmentOrUnknown ==
    AttainmentComputed =>
        LET n == Len(SheetOf("promo data").rows)
            target == InputSum("Target_Sales", n)
            actual == InputSum("Actual_Sales", n)
        IN IF target.n # 0
           THEN kpi.pencapaian = Frac(actual.n, target.n)
           ELSE /\ IsNaN(kpi.pencapaian)
                /\ cards.sales \in {"none", WHITE}

\* C5 witness: the targets 2 and -2 sum to 0 while the actual sum is 6, and
\* the Sales card is shown
C5_Witness ==
    /\ AttainmentComputed
    /\ Len(SheetOf("promo data").rows) = 2
    /\ SheetOf("promo data").rows[1]["Target_Sales"] = F(2)
    /\ SheetOf("promo data").rows[2]["Target_Sales"] = F(-2)
    /\ kpi.total_actual = F(6)
    /\ IsNaN(kpi.pencapaian)
    /\ cards.sales = WHITE

-----------------------------------------------------------------------------
(* Runs over pricing tables (SpecPricing).                                 *)

PricingBeli == << NaN, F(0), F(1), F(3) >>
PricingJual == << NaN, F(0), F(2), F(4) >>

PricingRowOf(k) ==
    PricingRow("Produk", PricingBeli[((k - 1) % Len(PricingBeli)) + 1],
               PricingJual[((k - 1) \div Len(PricingBeli)) + 1])

InitPricing ==
    \E f \in RowChoices(MaxPricingRows, Len(PricingBeli) * Len(PricingJual)),
       with_jual \in BOOLEAN :
        LET full == Table(PricingCols, [i \in 1..Len(f) |-> PricingRowOf(f[i])])
        IN StartRun(OneSheet("Pricing Data",
                             IF with_jual THEN full ELSE DropCol(full, "Harga_Jual")),
                    DiskBook, Noon)

SpecPricing == InitPricing /\ [][Next]_vars

MarginComputed == "Margin_pct" \in pricing.cols

\* the sale price of an uploaded pricing row is zero or absent
NoSalePrice(raw) ==
    \/ "Harga_Jual" \notin DOMAIN raw
    \/ IsNaN(raw["Harga_Jual"])
    \/ raw["Harga_Jual"] = F(0)

\* C6: the margin of a pricing entry whose sale price is zero or absent is
\* undefined (no infinity, no number), and an average margin over such
\* entries alone is undefined and shows the unknown tier.
C6_NoSalePriceNoMargin ==
    MarginComputed =>
        /\ \A i \in 1..Len(pricing.rows) :
              NoSalePrice(SheetOf("pricing data").rows[i]) =>
                  IsNaN(pricing.rows[i]["Margin_pct"])
        /\ (/\ cards.margin # "none"
            /\ \A i \in 1..Len(pricing.rows) :
                  NoSalePrice(SheetOf("pricing data").rows[i]))
              => (IsNaN(kpi.avg_margin) /\ cards.margin = WHITE)

====
